---- MODULE Spec2Model ----
(***************************************************************************)
(* HarmLens decision-and-audit engine: scoring (core/signals/              *)
(* improved_scoring.py), decision policy (core/actions.py), moderation     *)
(* queue (core/database.py), action executor (core/action_executor.py)     *)
(* and audit ledger (core/blockchain.py).                                  *)
(*                                                                         *)
(* Signal scores are floats in [0,1] in the source; here they are integer  *)
(* hundredths (0.6 is 60).  A risk score in progress is kept as an exact   *)
(* fixed-point number with 20000 units per risk point, so that the weights *)
(* (hundredths) and the multipliers 1.2, 1.25 and 1.3 are all exact.       *)
(***************************************************************************)
EXTENDS Integers, Sequences, FiniteSets, TLC

VARIABLES
    signals,        \* the SignalSet handed to the scoring engine
    scoring,        \* result of calculate_improved_harm_score + recommend_action, or None
    prev_scoring,   \* the result before the last raise of a signal score, or None
    assessment,     \* the scoring_result handed to recommend_action on its own, or None
    recommendation, \* what recommend_action returned for assessment, or None
    content_analysis,   \* table content_analysis: set of rows, content_id UNIQUE
    moderation_queue,   \* table moderation_queue: sequence of rows, id = position
    action_log,         \* table action_log: sequence of rows
    webhook_log,        \* table webhook_log: sequence of rows
    escalations,        \* table escalations: sequence of rows, id = position
    now,                \* CURRENT_TIMESTAMP, in seconds
    review_pc,          \* per review call in flight: "idle" or "called"
    review_args,        \* per review call in flight: its arguments
    review_log,         \* completed review calls, in commit order
    last_queue_items,   \* rows returned by the latest get_queue_items, None once the tables changed
    exec_result,        \* what the latest execute_analysis_actions call returned or raised, or None
    webhooks,           \* ActionExecutor.webhooks: which webhook URLs are configured
    exec_calls,         \* number of execute_analysis_actions calls made so far
    exec_inflight,      \* the execute_analysis_actions call in progress, step by step, or None
    ledger_mode,        \* class of ActionExecutor.blockchain: "local" or "ethereum"
    audit_file,         \* blockchain_sim/audit_chain.json: the sequence chain["blocks"]
    append_pc,          \* per log_analysis call in flight: "idle" or "loaded"
    append_local,       \* per log_analysis call in flight: its arguments and the chain it loaded
    append_returned,    \* hashes returned by completed log_analysis calls, in order
    eth_records,        \* audit records held by the ModerationAudit contract, in order
    ipfs,               \* IPFS store: the payload kept under each on-chain record
    tampered,           \* positions of ledger blocks whose payload was altered after the append
    last_verify,        \* the latest ActionExecutor.verify_audit_integrity call and its result, or None
    file_state,         \* audit_chain.json on disk: "whole" JSON text, "truncated" or "partial"
    last_read           \* the latest get_audit_record / get_blockchain_stats call and its outcome, or None

score_vars == <<signals, scoring, prev_scoring, assessment, recommendation>>
db_vars == <<content_analysis, moderation_queue, action_log, webhook_log, now>>
review_vars == <<review_pc, review_args, review_log>>
ledger_vars == <<ledger_mode, audit_file, append_pc, append_local, append_returned,
                 eth_records, ipfs, tampered, last_verify,
                   file_state, last_read>>
exec_vars == <<exec_result, webhooks, exec_calls, exec_inflight>>
vars == <<score_vars, db_vars, escalations, review_vars, last_queue_items, exec_vars,
          ledger_vars>>

None == [none |-> TRUE]

Max(a, b) == IF a >= b THEN a ELSE b
Min(a, b) == IF a <= b THEN a ELSE b

(***************************************************************************)
(* Input grids.  Each grid has a value in every interval the thresholds    *)
(* of the code cut out (0.5, 0.6, 0.7), including the boundary values.     *)
(* On these grids the binary floating-point value the source computes      *)
(* rounds to the same integer as the exact value computed here (at an      *)
(* exact half the float lands on the side RoundHalfEven picks).            *)
(***************************************************************************)
EmotionGrid == {0, 100}
CtaGrid     == {0, 100}
ToxGrid     == {0, 70, 100}
ContextGrid == {0, 100}
ChildGrid   == {0, 50, 60, 100}
ToxSeverities   == {"low", "high", "critical"}
ChildSeverities == {"none", "high", "critical"}
CategorySets    == {{}, {"Hate Speech"}, {"Hate Speech", "Threats/Violence"}, {"Safe"}}
MaxMatches == 2

SignalSets ==
    [emotion_score : EmotionGrid, cta_score : CtaGrid, tox_score : ToxGrid,
     context_score : ContextGrid, child_score : ChildGrid, child_flag : BOOLEAN,
     toxicity_severity : ToxSeverities, requires_immediate_action : BOOLEAN,
     toxicity_categories : CategorySets, child_severity : ChildSeverities,
     child_exploitation_matches : 0..MaxMatches,
     child_combination_matches : 0..(MaxMatches - 1)]

(***************************************************************************)
(* calculate_improved_harm_score                                           *)
(***************************************************************************)
Points(n) == n * 20000

base_score(s) ==
    200 * (35 * s.child_score + 30 * s.tox_score + 20 * s.emotion_score
           + 10 * s.cta_score + 5 * s.context_score)

severe_categories ==
    {"Threats/Violence", "Hate Speech", "Sexual Harassment",
     "Extremist Content", "Slurs/Derogatory Language"}

severe_count(s) == Cardinality(s.toxicity_categories \cap severe_categories)

\* ChildOverride with the danger-combination test lost from Override 1
ChildOverride_NoCombination(s, r) ==
    IF s.child_severity = "critical"
    THEN [risk |-> Max(r, Points(95)), immediate |-> TRUE]
    ELSE IF s.child_severity = "high" \/ s.child_exploitation_matches >= 2
    THEN [risk |-> Max(r, Points(85)), immediate |-> TRUE]
    ELSE IF s.child_flag /\ s.child_score > 60
    THEN [risk |-> Max(r, Points(80)), immediate |-> s.requires_immediate_action]
    ELSE IF s.child_flag /\ s.child_exploitation_matches >= 1
    THEN [risk |-> Max(r, Points(85)), immediate |-> TRUE]
    ELSE [risk |-> r, immediate |-> s.requires_immediate_action]

\* Overrides 1-4: the if / elif chain on child safety
ChildOverride(s, r) ==
    IF s.child_severity = "critical" \/ s.child_combination_matches >= 1
    THEN [risk |-> Max(r, Points(95)), immediate |-> TRUE]
    ELSE IF s.child_severity = "high" \/ s.child_exploitation_matches >= 2
    THEN [risk |-> Max(r, Points(85)), immediate |-> TRUE]
    ELSE IF s.child_flag /\ s.child_score > 60
    THEN [risk |-> Max(r, Points(80)), immediate |-> s.requires_immediate_action]
    ELSE IF s.child_flag /\ s.child_exploitation_matches >= 1
    THEN [risk |-> Max(r, Points(85)), immediate |-> TRUE]
    ELSE [risk |-> r, immediate |-> s.requires_immediate_action]

\* Overrides 5-7: immediate action, toxicity severity, severe categories
ToxicityOverride(s, co) ==
    LET r5 == IF co.immediate /\ ~s.child_flag
              THEN Max(co.risk, Points(85)) ELSE co.risk
        r6 == IF s.toxicity_severity = "critical" THEN Max(r5, Points(90))
              ELSE IF s.toxicity_severity = "high" THEN Max(r5, Points(75))
              ELSE r5
    IN  IF severe_count(s) >= 2 THEN Max(r6, Points(85))
        ELSE IF severe_count(s) >= 1 THEN Max(r6, Points(70))
        ELSE r6

\* Overrides 8-10: combination multipliers, each capped at 100
Multipliers(s, r) ==
    LET r8  == IF s.tox_score > 70 /\ s.emotion_score > 60
               THEN Min((r * 6) \div 5, Points(100)) ELSE r
        r9  == IF s.tox_score > 70 /\ s.cta_score > 60
               THEN Min((r8 * 5) \div 4, Points(100)) ELSE r8
    IN  IF s.child_flag /\ (s.tox_score > 60 \/ s.emotion_score > 60)
        THEN Min((r9 * 13) \div 10, Points(100)) ELSE r9

\* int(round(x)): Python 3 rounds halves to the even integer
RoundHalfEven(r) ==
    LET q == r \div 20000
        m == r % 20000
    IN  IF m < 10000 THEN q
        ELSE IF m > 10000 THEN q + 1
        ELSE IF q % 2 = 0 THEN q ELSE q + 1

\* risk_label with the thresholds 39 and 69 of the former scoring
risk_label_old(score) ==
    IF score <= 39 THEN "Low" ELSE IF score <= 69 THEN "Medium" ELSE "High"

\* labels: <= 49 Low, <= 74 Medium, else High
risk_label(score) ==
    IF score <= 49 THEN "Low" ELSE IF score <= 74 THEN "Medium" ELSE "High"

\* child_escalation with the score test lost: the flag alone escalates
child_escalation_flag_only(s) == s.child_flag

\* "child_escalation": child_flag and child > 0.5
child_escalation(s) == s.child_flag /\ s.child_score > 50

calculate_improved_harm_score(s) ==
    LET co    == ChildOverride(s, base_score(s))
        r     == Multipliers(s, ToxicityOverride(s, co))
        score == Min(RoundHalfEven(r), 100)
    IN  [risk_score |-> score,
         risk_label |-> risk_label(score),
         child_escalation |-> child_escalation(s),
         immediate_action_required |->
             co.immediate \/ s.child_severity \in {"critical", "high"},
         toxicity_severity |-> s.toxicity_severity,
         child_severity |-> s.child_severity]

(***************************************************************************)
(* recommend_action                                                        *)
(***************************************************************************)
recommend_action(scoring_result) ==
    IF scoring_result.child_escalation
    THEN [action |-> "ESCALATE IMMEDIATELY", queue |-> "Child Safety",
          priority |-> "CRITICAL"]
    ELSE IF scoring_result.risk_score <= 39
    THEN [action |-> "Monitor", queue |-> "Automated Monitoring",
          priority |-> "LOW"]
    ELSE IF scoring_result.risk_score <= 69
    THEN [action |-> "Add Warning / Reduce Reach",
          queue |-> "Automated + Sampling Review", priority |-> "MEDIUM"]
    ELSE [action |-> "Human Review Required", queue |-> "Priority Review Queue",
          priority |-> "HIGH"]

\* The scoring pipeline of analyze_full / analyze_content: score, then decide
Pipeline(s) ==
    LET sr == calculate_improved_harm_score(s)
        ar == recommend_action(sr)
    IN  [risk_score |-> sr.risk_score, risk_label |-> sr.risk_label,
         child_escalation |-> sr.child_escalation,
         immediate_action_required |-> sr.immediate_action_required,
         action |-> ar.action, queue |-> ar.queue, priority |-> ar.priority]

(***************************************************************************)
(* State after construction of each component                              *)
(***************************************************************************)
NULL == "NULL"

\* WEBHOOK_HIGH_RISK and WEBHOOK_CHILD_SAFETY unset in the environment
NoWebhooks == [high_risk |-> FALSE, child_safety |-> FALSE]
AppendProcs == {1, 2}
ReviewProcs == {1, 2}

NoSignals ==
    [emotion_score |-> 0, cta_score |-> 0, tox_score |-> 0, context_score |-> 0,
     child_score |-> 0, child_flag |-> FALSE, toxicity_severity |-> "low",
     requires_immediate_action |-> FALSE, toxicity_categories |-> {},
     child_severity |-> "none", child_exploitation_matches |-> 0,
     child_combination_matches |-> 0]

ScoreIdle ==
    /\ signals = NoSignals
    /\ scoring = None
    /\ prev_scoring = None
    /\ assessment = None
    /\ recommendation = None

\* ModerationDatabase.__init__ / init_database: empty tables
DbInit ==
    /\ content_analysis = {}
    /\ moderation_queue = << >>
    /\ action_log = << >>
    /\ webhook_log = << >>
    /\ escalations = << >>
    /\ now = 1
    /\ review_pc = [p \in ReviewProcs |-> "idle"]
    /\ review_args = [p \in ReviewProcs |-> None]
    /\ review_log = << >>
    /\ last_queue_items = None
    /\ exec_result = None
    /\ webhooks = NoWebhooks
    /\ exec_calls = 0
    /\ exec_inflight = None

\* LocalBlockchainSimulator.__init__ / _init_chain: {"blocks": []}
LedgerInit ==
    /\ audit_file = << >>
    /\ append_pc = [p \in AppendProcs |-> "idle"]
    /\ append_local = [p \in AppendProcs |-> None]
    /\ append_returned = << >>
    /\ eth_records = << >>
    /\ ipfs = << >>
    /\ tampered = {}
    /\ last_verify = None
    /\ file_state = "whole"
    /\ last_read = None

InitScore ==
    /\ signals \in SignalSets
    /\ scoring = None
    /\ prev_scoring = None
    /\ assessment = None
    /\ recommendation = None
    /\ DbInit
    /\ ledger_mode = "local"
    /\ LedgerInit

\* One analysis of the signal set
Analyze ==
    /\ scoring = None
    /\ scoring' = Pipeline(signals)
    /\ UNCHANGED <<signals, prev_scoring, assessment, recommendation>>
    /\ UNCHANGED <<db_vars, escalations, review_vars, last_queue_items, exec_vars, ledger_vars>>

\* The same content re-scored with exactly one signal score raised
RaiseScore(field, v) ==
    /\ scoring # None
    /\ prev_scoring = None
    /\ v > signals[field]
    /\ signals' = [signals EXCEPT ![field] = v]
    /\ prev_scoring' = scoring
    /\ scoring' = Pipeline(signals')
    /\ UNCHANGED <<assessment, recommendation>>
    /\ UNCHANGED <<db_vars, escalations, review_vars, last_queue_items, exec_vars, ledger_vars>>

RaiseAny ==
    \/ \E v \in EmotionGrid : RaiseScore("emotion_score", v)
    \/ \E v \in CtaGrid     : RaiseScore("cta_score", v)
    \/ \E v \in ToxGrid     : RaiseScore("tox_score", v)
    \/ \E v \in ContextGrid : RaiseScore("context_score", v)
    \/ \E v \in ChildGrid   : RaiseScore("child_score", v)

NextScore == Analyze \/ RaiseAny

SpecScore == InitScore /\ [][NextScore]_vars

(***************************************************************************)
(* C1.  Override dominance: whenever the danger-combination indicator is   *)
(* set (child_combination_matches >= 1), scoring followed by               *)
(* recommend_action yields priority CRITICAL and queue "Child Safety",     *)
(* whatever child_flag, child_score and the other signals are.             *)
(***************************************************************************)
C1_OverrideDominance ==
    (scoring # None /\ signals.child_combination_matches >= 1)
        => (scoring.priority = "CRITICAL" /\ scoring.queue = "Child Safety")

(***************************************************************************)
(* C12.  Child-safety short-circuit: scoring followed by recommend_action  *)
(* returns action "ESCALATE IMMEDIATELY", priority CRITICAL, queue         *)
(* "Child Safety" if and only if child_flag is set and child_score > 0.5,  *)
(* whatever the risk score and the other signals; no other input gives     *)
(* priority CRITICAL.                                                      *)
(***************************************************************************)
C12_ChildShortCircuit ==
    scoring # None =>
        LET escalated == /\ scoring.action = "ESCALATE IMMEDIATELY"
                         /\ scoring.priority = "CRITICAL"
                         /\ scoring.queue = "Child Safety"
        IN  /\ escalated <=> (signals.child_flag /\ signals.child_score > 50)
            /\ scoring.priority = "CRITICAL" => escalated

\* a flagged child score just above 0.5 escalates although the risk score
\* is below the HIGH range
C12_Witness ==
    /\ scoring # None
    /\ signals.child_flag
    /\ signals.child_score = 60
    /\ scoring.risk_score <= 49
    /\ scoring.priority = "CRITICAL"
    /\ scoring.queue = "Child Safety"

(***************************************************************************)
(* C13.  Whenever the child-safety severity is critical or there is at     *)
(* least one danger-combination match, the score is at least 95, the label *)
(* is High and immediate_action_required is true, whatever the other       *)
(* signal scores and flags are.                                            *)
(***************************************************************************)
C13_CriticalFloor ==
    (scoring # None /\ (signals.child_severity = "critical"
                        \/ signals.child_combination_matches >= 1))
        => /\ scoring.risk_score >= 95
           /\ scoring.risk_label = "High"
           /\ scoring.immediate_action_required

\* a danger combination alone, every score zero: the floor gives exactly 95
C13_Witness ==
    /\ scoring # None
    /\ signals.child_combination_matches >= 1
    /\ signals.child_severity = "none"
    /\ ~signals.requires_immediate_action
    /\ signals.child_score = 0
    /\ scoring.risk_score = 95
    /\ scoring.immediate_action_required

(***************************************************************************)
(* C15.  For every signal set whose five scores lie in [0,1], risk_score   *)
(* is an integer in 0..100 and carries exactly one label: Low exactly when *)
(* it is <= 49, Medium exactly when it is 50..74, High exactly when >= 75. *)
(***************************************************************************)
C15_LabelPartition ==
    scoring # None =>
        /\ scoring.risk_score \in 0..100
        /\ scoring.risk_label \in {"Low", "Medium", "High"}
        /\ scoring.risk_label = "Low" <=> scoring.risk_score <= 49
        /\ scoring.risk_label = "Medium" <=>
              (50 <= scoring.risk_score /\ scoring.risk_score <= 74)
        /\ scoring.risk_label = "High" <=> scoring.risk_score >= 75

\* a score of 70 or more that is still Medium
C15_Witness ==
    /\ scoring # None
    /\ scoring.risk_score >= 70
    /\ scoring.risk_label = "Medium"

(***************************************************************************)
(* C7.  Monotonicity: raising one of the five signal scores, with all      *)
(* flags, severities and match counts unchanged, never lowers risk_score.  *)
(***************************************************************************)
C7_Monotonic ==
    prev_scoring # None => scoring.risk_score >= prev_scoring.risk_score

(***************************************************************************)
(* recommend_action on its own, for every risk score                       *)
(***************************************************************************)
\* the scoring results recommend_action reads: risk_score and child_escalation
Assessments == [risk_score : 0..100, child_escalation : BOOLEAN]

InitDecide ==
    /\ signals = NoSignals
    /\ scoring = None
    /\ prev_scoring = None
    /\ assessment \in Assessments
    /\ recommendation = None
    /\ DbInit
    /\ ledger_mode = "local"
    /\ LedgerInit

\* recommend_action(scoring_result, signals)
Decide ==
    /\ recommendation = None
    /\ recommendation' = recommend_action(assessment)
    /\ UNCHANGED <<signals, scoring, prev_scoring, assessment>>
    /\ UNCHANGED <<db_vars, escalations, review_vars, last_queue_items, exec_vars, ledger_vars>>

NextDecide == Decide

SpecDecide == InitDecide /\ [][NextDecide]_vars

(***************************************************************************)
(* C11.  Without child_escalation, recommend_action maps every risk score  *)
(* 0..100 by the rule table: <= 49 gives "Monitor", LOW, "Automated        *)
(* Monitoring"; 50..74 gives "Add Warning / Reduce Reach", MEDIUM,         *)
(* "Automated + Sampling Review"; >= 75 gives "Human Review Required",     *)
(* HIGH, "Priority Review Queue".                                          *)
(***************************************************************************)
C11_RuleTable ==
    (recommendation # None /\ ~assessment.child_escalation) =>
        recommendation =
            IF assessment.risk_score <= 49
            THEN [action |-> "Monitor", queue |-> "Automated Monitoring",
                  priority |-> "LOW"]
            ELSE IF assessment.risk_score <= 74
            THEN [action |-> "Add Warning / Reduce Reach",
                  queue |-> "Automated + Sampling Review", priority |-> "MEDIUM"]
            ELSE [action |-> "Human Review Required",
                  queue |-> "Priority Review Queue", priority |-> "HIGH"]


(***************************************************************************)
(* Scoring of malformed signal sets: scores outside [0,1] and NaN          *)
(***************************************************************************)
ScoreFields == {"emotion_score", "cta_score", "tox_score", "context_score", "child_score"}

\* score values below 0, inside [0,1] and above 1
WideGrid == {-50, 0, 100, 150}

\* A signal set as a detector may hand it over; nan names the scores whose
\* value is float('nan')
WideSignal(e, c, t, x, k, fl, nan) ==
    [NoSignals EXCEPT !.emotion_score = e, !.cta_score = c, !.tox_score = t,
                      !.context_score = x, !.child_score = k, !.child_flag = fl]
        @@ [nan_scores |-> nan]

WideSignalSets ==
    {WideSignal(e, c, t, x, k, fl, nan) :
        e \in WideGrid, c \in WideGrid, t \in WideGrid, x \in WideGrid,
        k \in WideGrid, fl \in BOOLEAN,
        nan \in {{}} \cup {{f} : f \in ScoreFields}}

InvalidSignal(s) ==
    \/ s.nan_scores # {}
    \/ \E f \in ScoreFields : s[f] < 0 \/ s[f] > 100

\* calculate_improved_harm_score called with s: there is no validation; a NaN
\* goes through every max and min and int(round(nan)) raises ValueError, any
\* other number is scored
score_call(s) ==
    IF s.nan_scores # {}
    THEN [raised |-> "ValueError", assessment |-> None]
    ELSE [raised |-> NULL, assessment |-> calculate_improved_harm_score(s)]

InitInvalid ==
    /\ signals \in WideSignalSets
    /\ scoring = None
    /\ prev_scoring = None
    /\ assessment = None
    /\ recommendation = None
    /\ DbInit
    /\ ledger_mode = "local"
    /\ LedgerInit

ScoreCall ==
    /\ scoring = None
    /\ scoring' = score_call(signals)
    /\ UNCHANGED <<signals, prev_scoring, assessment, recommendation>>
    /\ UNCHANGED <<db_vars, escalations, review_vars, last_queue_items, exec_vars, ledger_vars>>

NextInvalid == ScoreCall

SpecInvalid == InitInvalid /\ [][NextInvalid]_vars

(***************************************************************************)
(* C14.  Scoring a signal set in which some score lies outside [0,1] or is *)
(* not a number fails with InvalidSignal and produces no assessment.       *)
(***************************************************************************)
C14_InvalidSignalRejected ==
    (scoring # None /\ InvalidSignal(signals)) =>
        (scoring.raised = "InvalidSignal" /\ scoring.assessment = None)

(***************************************************************************)
(* Moderation queue: ModerationDatabase (core/database.py)                 *)
(***************************************************************************)
MaxQueue   == 2     \* rows in moderation_queue
MaxClock   == 2     \* values of CURRENT_TIMESTAMP
MaxReviews == 2     \* completed review calls

ContentIds == {"c1", "c2"}

\* Signal sets whose analyses cover the four decisions of recommend_action
SampleSignals ==
    {NoSignals,
     [NoSignals EXCEPT !.tox_score = 100, !.emotion_score = 100],
     [NoSignals EXCEPT !.toxicity_severity = "critical"],
     [NoSignals EXCEPT !.child_flag = TRUE, !.child_score = 100]}

\* The analysis dicts the pipeline hands to the executor and the database
Analyses == {Pipeline(sg) : sg \in SampleSignals}

\* (queue, priority) pairs handed to add_to_queue: by execute_analysis_actions
\* (priority MEDIUM, HIGH or CRITICAL) and by _save_to_moderation_queue of app.py
EnqueueArgs ==
    {[queue |-> d.queue, priority |-> d.priority] :
        d \in {x \in Analyses : x.priority \in {"HIGH", "CRITICAL", "MEDIUM"}}}
    \cup {[queue |-> "Automated + Sampling Review", priority |-> "LOW"]}

\* (reviewer, decision, notes) of review calls; notes is optional
ReviewInputs ==
    {[reviewer |-> "mod1", decision |-> "approved", notes |-> NULL],
     [reviewer |-> "mod1", decision |-> "approved", notes |-> "note"],
     [reviewer |-> "mod2", decision |-> "removed", notes |-> "note"],
     [reviewer |-> "mod2", decision |-> "approved", notes |-> NULL]}

HasAnalysis(cid) == \E c \in content_analysis : c.content_id = cid

\* save_analysis: INSERT INTO content_analysis; IntegrityError on a second
\* row for the same content_id (content_id TEXT UNIQUE) gives False
save_analysis_ok(cid) == ~HasAnalysis(cid)

\* save_analysis_rows as INSERT OR REPLACE: a second save overwrites the row
save_analysis_rows_replace(cid, analysis) ==
    {c \in content_analysis : c.content_id # cid} \cup
        {[content_id |-> cid, risk_score |-> analysis.risk_score,
          risk_label |-> analysis.risk_label, action |-> analysis.action,
          priority |-> analysis.priority, queue |-> analysis.queue]}

\* the table after save_analysis: the new row, or the table as it was
save_analysis_rows(cid, analysis) ==
    IF save_analysis_ok(cid)
    THEN content_analysis \cup
            {[content_id |-> cid, risk_score |-> analysis.risk_score,
              risk_label |-> analysis.risk_label, action |-> analysis.action,
              priority |-> analysis.priority, queue |-> analysis.queue]}
    ELSE content_analysis

\* add_to_queue: INSERT INTO moderation_queue (content_id, queue_name, priority)
add_to_queue_rows(cid, queue_name, priority) ==
    Append(moderation_queue,
           [content_id |-> cid, queue_name |-> queue_name, priority |-> priority,
            assigned_to |-> NULL, status |-> "pending", created_at |-> now,
            reviewed_at |-> 0, reviewer_decision |-> NULL, reviewer_notes |-> NULL])

\* log_action: INSERT INTO action_log
log_action_rows(log, cid, action_type, result) ==
    Append(log, [content_id |-> cid, action_type |-> action_type, action_result |-> result])

\* PriorityRank with the MEDIUM branch lost: MEDIUM falls to ELSE 4
PriorityRank_NoMedium(priority) ==
    CASE priority = "CRITICAL" -> 1
      [] priority = "HIGH"     -> 2
      [] OTHER                 -> 4

\* ORDER BY CASE q.priority WHEN 'CRITICAL' THEN 1 WHEN 'HIGH' THEN 2
\*                          WHEN 'MEDIUM' THEN 3 ELSE 4 END
PriorityRank(priority) ==
    CASE priority = "CRITICAL" -> 1
      [] priority = "HIGH"     -> 2
      [] priority = "MEDIUM"   -> 3
      [] OTHER                 -> 4

\* the ORDER BY clause of get_queue_items: rank, then q.created_at ASC
OrderedBefore(a, b) ==
    \/ PriorityRank(a.priority) < PriorityRank(b.priority)
    \/ /\ PriorityRank(a.priority) = PriorityRank(b.priority)
       /\ a.created_at <= b.created_at

\* WHERE q.queue_name = ? AND q.status = ? (queue_name omitted when None),
\* JOIN content_analysis c ON q.content_id = c.content_id
MatchingIds(queue_name, status) ==
    {i \in 1..Len(moderation_queue) :
        /\ queue_name # NULL => moderation_queue[i].queue_name = queue_name
        /\ moderation_queue[i].status = status
        /\ HasAnalysis(moderation_queue[i].content_id)}

JoinedRow(i) ==
    LET q == moderation_queue[i]
        c == CHOOSE x \in content_analysis : x.content_id = q.content_id
    IN  [id |-> i, content_id |-> q.content_id, queue_name |-> q.queue_name,
         priority |-> q.priority, status |-> q.status, created_at |-> q.created_at,
         risk_score |-> c.risk_score]

\* The result lists the SELECT may return: every arrangement of the matching
\* rows that respects ORDER BY (rows with equal keys come in any order)
get_queue_items(queue_name, status) ==
    LET ids == MatchingIds(queue_name, status)
        n   == Cardinality(ids)
    IN  {[k \in 1..n |-> JoinedRow(f[k])] :
            f \in {g \in [1..n -> ids] :
                     /\ \A i, j \in 1..n : i # j => g[i] # g[j]
                     /\ \A i, j \in 1..n : i < j =>
                            OrderedBefore(moderation_queue[g[i]], moderation_queue[g[j]])}}

\* update_queue_status: UPDATE moderation_queue SET status = ?,
\* reviewed_at = CURRENT_TIMESTAMP, x = COALESCE(?, x) ... WHERE id = ?
Coalesce(arg, old) == IF arg # NULL THEN arg ELSE old

update_queue_status_row(row, status, reviewer, decision, notes) ==
    [row EXCEPT !.status = status,
                !.reviewed_at = now,
                !.assigned_to = Coalesce(reviewer, @),
                !.reviewer_decision = Coalesce(decision, @),
                !.reviewer_notes = Coalesce(notes, @)]

update_queue_status_rows(queue_id, status, reviewer, decision, notes) ==
    [i \in 1..Len(moderation_queue) |->
        IF i = queue_id
        THEN update_queue_status_row(moderation_queue[i], status, reviewer, decision, notes)
        ELSE moderation_queue[i]]

InitQueue ==
    /\ ScoreIdle
    /\ DbInit
    /\ ledger_mode = "local"
    /\ LedgerInit

\* one second passes
Tick ==
    /\ now < MaxClock
    /\ now' = now + 1
    /\ UNCHANGED <<content_analysis, moderation_queue, action_log, webhook_log>>
    /\ UNCHANGED <<score_vars, escalations, review_vars, last_queue_items, exec_vars, ledger_vars>>

\* db.save_analysis(content_id, analysis, request_data)
SaveAnalysis(cid, analysis) ==
    /\ content_analysis' = save_analysis_rows(cid, analysis)
    /\ content_analysis' # content_analysis
    /\ last_queue_items' = None
    /\ UNCHANGED <<moderation_queue, action_log, webhook_log, now>>
    /\ UNCHANGED <<score_vars, escalations, review_vars, exec_vars, ledger_vars>>

\* db.add_to_queue(content_id, queue_name, priority): one INSERT transaction
AddToQueue(cid, queue_name, priority) ==
    /\ Len(moderation_queue) < MaxQueue
    /\ moderation_queue' = add_to_queue_rows(cid, queue_name, priority)
    /\ last_queue_items' = None
    /\ UNCHANGED <<content_analysis, action_log, webhook_log, now>>
    /\ UNCHANGED <<score_vars, escalations, review_vars, exec_vars, ledger_vars>>

\* db.get_queue_items(queue_name, status): one SELECT
GetQueueItems(queue_name, status) ==
    /\ \E rows \in get_queue_items(queue_name, status) :
          last_queue_items' = [queue_name |-> queue_name, status |-> status, items |-> rows]
    /\ last_queue_items' # last_queue_items
    /\ UNCHANGED <<db_vars, score_vars, escalations, review_vars, exec_vars, ledger_vars>>

\* review_queue_item / the dashboard buttons: the request arrives
ReviewCall(p, queue_id, status, reviewer, decision, notes) ==
    /\ review_pc[p] = "idle"
    /\ Len(review_log) + Cardinality({q \in ReviewProcs : review_pc[q] = "called"}) < MaxReviews
    /\ review_pc' = [review_pc EXCEPT ![p] = "called"]
    /\ review_args' = [review_args EXCEPT ![p] =
            [queue_id |-> queue_id, status |-> status, reviewer |-> reviewer,
             decision |-> decision, notes |-> notes,
             status_at_call |-> moderation_queue[queue_id].status]]
    /\ UNCHANGED <<review_log, db_vars, score_vars, escalations, last_queue_items, exec_vars, ledger_vars>>

\* db.update_queue_status(...) commits its UPDATE and the call returns
\* {"status": "success", ...}; update_queue_status has no other outcome
ReviewCommit(p) ==
    LET a == review_args[p]
    IN  /\ review_pc[p] = "called"
        /\ moderation_queue' =
              update_queue_status_rows(a.queue_id, a.status, a.reviewer, a.decision, a.notes)
        /\ review_log' = Append(review_log,
              [queue_id |-> a.queue_id, reviewer |-> a.reviewer, decision |-> a.decision,
               status_at_call |-> a.status_at_call, outcome |-> "success",
               before |-> moderation_queue[a.queue_id],
               after |-> moderation_queue'[a.queue_id]])
        /\ review_pc' = [review_pc EXCEPT ![p] = "idle"]
        /\ review_args' = [review_args EXCEPT ![p] = None]
        /\ last_queue_items' = None
        /\ UNCHANGED <<content_analysis, action_log, webhook_log, now>>
        /\ UNCHANGED <<score_vars, escalations, exec_vars, ledger_vars>>

NextQueue ==
    \/ Tick
    \/ \E cid \in ContentIds, a \in {x \in Analyses : x.priority \in {"MEDIUM", "CRITICAL"}} :
          SaveAnalysis(cid, a)
    \/ \E cid \in ContentIds, a \in EnqueueArgs : AddToQueue(cid, a.queue, a.priority)
    \/ \E qn \in {NULL} \cup {a.queue : a \in EnqueueArgs} : GetQueueItems(qn, "pending")

SpecQueue == InitQueue /\ [][NextQueue]_vars

\* Review calls on a queue of one or two pending entries
ReviewQueues ==
    LET row(c, a) == [content_id |-> c, queue_name |-> a.queue, priority |-> a.priority,
                      assigned_to |-> NULL, status |-> "pending", created_at |-> 1,
                      reviewed_at |-> 0, reviewer_decision |-> NULL,
                      reviewer_notes |-> NULL]
        rows == {row("c1", a) : a \in {x \in EnqueueArgs : x.priority \in {"MEDIUM", "CRITICAL"}}}
    IN  {<<r>> : r \in rows} \cup {<<r1, r2>> : r1 \in rows, r2 \in rows}

InitReview ==
    /\ ScoreIdle
    /\ content_analysis = {}
    /\ moderation_queue \in ReviewQueues
    /\ action_log = << >>
    /\ webhook_log = << >>
    /\ escalations = << >>
    /\ now = 1
    /\ review_pc = [p \in ReviewProcs |-> "idle"]
    /\ review_args = [p \in ReviewProcs |-> None]
    /\ review_log = << >>
    /\ last_queue_items = None
    /\ exec_result = None
    /\ webhooks = NoWebhooks
    /\ exec_calls = 0
    /\ exec_inflight = None
    /\ ledger_mode = "local"
    /\ LedgerInit

NextReview ==
    \/ Tick
    \/ \E p \in ReviewProcs, id \in 1..Len(moderation_queue), i \in ReviewInputs :
          ReviewCall(p, id, "reviewed", i.reviewer, i.decision, i.notes)
    \/ \E p \in ReviewProcs, id \in 1..Len(moderation_queue) :
          ReviewCall(p, id, "escalated", "moderator", "escalated", "note")
    \/ \E p \in ReviewProcs : ReviewCommit(p)

SpecReview == InitReview /\ [][NextReview]_vars


(***************************************************************************)
(* Escalations: ModerationDatabase.create_escalation and                   *)
(* update_escalation_status                                                *)
(***************************************************************************)
MaxEscalations == 1     \* rows in escalations

Priorities == {"CRITICAL", "HIGH", "MEDIUM", "LOW"}

\* time_estimates.get(priority, '24-48 hours')
time_estimates(priority) ==
    CASE priority = "CRITICAL" -> "< 1 hour"
      [] priority = "HIGH"     -> "2-4 hours"
      [] priority = "MEDIUM"   -> "4-8 hours"
      [] OTHER                 -> "24-48 hours"

\* the row INSERT INTO escalations creates
create_escalation_row(cid, escalated_by, reason, escalation_type, priority) ==
    [content_id |-> cid, escalated_by |-> escalated_by, escalation_reason |-> reason,
     escalation_type |-> escalation_type, priority |-> priority, status |-> "pending",
     assigned_to |-> NULL, response_time_estimate |-> time_estimates(priority),
     created_at |-> now, updated_at |-> now, responded_at |-> 0, resolved_at |-> 0,
     resolution_notes |-> NULL]

\* update_escalation_status_row that also rewrites the estimate once work starts
update_escalation_status_row_recompute(row, status, assigned_to, resolution_notes) ==
    [row EXCEPT
        !.status = status,
        !.updated_at = now,
        !.response_time_estimate = IF status = "in-progress" THEN "< 1 hour" ELSE @,
        !.assigned_to = IF assigned_to # NULL THEN assigned_to ELSE @,
        !.responded_at = IF status = "responded" /\ resolution_notes = NULL THEN now ELSE @,
        !.resolved_at = IF status = "resolved" THEN now ELSE @,
        !.resolution_notes = IF status = "resolved" /\ resolution_notes # NULL
                             THEN resolution_notes ELSE @]

\* UPDATE escalations SET <update_fields> WHERE id = ?
update_escalation_status_row(row, status, assigned_to, resolution_notes) ==
    [row EXCEPT
        !.status = status,
        !.updated_at = now,
        !.assigned_to = IF assigned_to # NULL THEN assigned_to ELSE @,
        !.responded_at = IF status = "responded" /\ resolution_notes = NULL THEN now ELSE @,
        !.resolved_at = IF status = "resolved" THEN now ELSE @,
        !.resolution_notes = IF status = "resolved" /\ resolution_notes # NULL
                             THEN resolution_notes ELSE @]

\* db.create_escalation(content_id, escalated_by, reason, escalation_type, priority)
CreateEscalation(cid, priority) ==
    /\ Len(escalations) < MaxEscalations
    /\ escalations' = Append(escalations,
          create_escalation_row(cid, "moderator", "reason", "Urgent Review", priority))
    /\ UNCHANGED <<score_vars, db_vars, review_vars, last_queue_items, exec_vars, ledger_vars>>

\* db.update_escalation_status(escalation_id, status, assigned_to, resolution_notes);
\* an id that matches no row updates nothing
UpdateEscalationStatus(escalation_id, status, assigned_to, resolution_notes) ==
    /\ escalation_id \in 1..Len(escalations)
    /\ escalations' = [escalations EXCEPT ![escalation_id] =
          update_escalation_status_row(@, status, assigned_to, resolution_notes)]
    /\ escalations' # escalations
    /\ UNCHANGED <<score_vars, db_vars, review_vars, last_queue_items, exec_vars, ledger_vars>>

InitEscalation ==
    /\ ScoreIdle
    /\ DbInit
    /\ ledger_mode = "local"
    /\ LedgerInit

\* the statuses the dashboard and the tests write
EscalationStatuses == {"pending", "in-progress", "responded", "resolved"}

NextEscalation ==
    \/ \E cid \in ContentIds, pr \in Priorities : CreateEscalation(cid, pr)
    \/ \E id \in 1..MaxEscalations, st \in EscalationStatuses,
          who \in {NULL, "senior"}, notes \in {NULL, "Resolved by moderator"} :
          UpdateEscalationStatus(id, st, who, notes)

SpecEscalation == InitEscalation /\ [][NextEscalation]_vars

(***************************************************************************)
(* C19.  An escalation's response_time_estimate is set once, at            *)
(* create_escalation, as a function of its priority only (CRITICAL         *)
(* '< 1 hour', HIGH '2-4 hours', MEDIUM '4-8 hours', LOW '24-48 hours'),   *)
(* and no later operation, in particular no update_escalation_status call, *)
(* changes it.  (Checked on SpecEscalation.)                               *)
(***************************************************************************)
C19_EstimateFixed ==
    [][/\ \A i \in 1..Len(escalations) :
             /\ i <= Len(escalations')
             /\ escalations'[i].response_time_estimate
                   = escalations[i].response_time_estimate
             /\ escalations'[i].priority = escalations[i].priority
       /\ \A i \in (Len(escalations) + 1)..Len(escalations') :
             escalations'[i].response_time_estimate =
                CASE escalations'[i].priority = "CRITICAL" -> "< 1 hour"
                  [] escalations'[i].priority = "HIGH"     -> "2-4 hours"
                  [] escalations'[i].priority = "MEDIUM"   -> "4-8 hours"
                  [] escalations'[i].priority = "LOW"      -> "24-48 hours"
    ]_vars

\* a HIGH escalation taken up, answered and resolved keeps '2-4 hours'
C19_Witness ==
    /\ Len(escalations) >= 1
    /\ escalations[1].priority = "HIGH"
    /\ escalations[1].status = "resolved"
    /\ escalations[1].assigned_to = "senior"
    /\ escalations[1].responded_at # 0
    /\ escalations[1].resolution_notes # NULL
    /\ escalations[1].response_time_estimate = "2-4 hours"

(***************************************************************************)
(* Audit ledger: LocalBlockchainSimulator and BlockchainAuditManager       *)
(* (core/blockchain.py), ActionExecutor.verify_audit_integrity             *)
(***************************************************************************)
MaxBlocks == 3      \* log_analysis calls started

\* "0" * 64, the previous_hash of the first block
ZeroHash == << >>

\* hash_data: sha256 over json.dumps(data, sort_keys=True).  The digest is
\* modelled as the serialized fields themselves, so that different data have
\* different digests and equal data equal digests.
hash_data(block) ==
    <<block.block_number, block.timestamp, block.content_id, block.data>>
        \o block.previous_hash

\* previous_hash_of taking blocks[0] in place of blocks[-1]
previous_hash_first(chain) ==
    IF chain # << >> THEN chain[1].hash ELSE ZeroHash

\* chain["blocks"][-1]["hash"] if chain["blocks"] else "0" * 64
previous_hash_of(chain) ==
    IF chain # << >> THEN chain[Len(chain)].hash ELSE ZeroHash

\* the block log_analysis creates on top of the chain it loaded
new_block(chain, cid, data) ==
    LET block == [block_number |-> Len(chain), timestamp |-> now,
                  content_id |-> cid, data |-> data,
                  previous_hash |-> previous_hash_of(chain)]
    IN  [block_number |-> block.block_number, timestamp |-> block.timestamp,
         content_id |-> block.content_id, data |-> block.data,
         previous_hash |-> block.previous_hash, hash |-> hash_data(block)]

\* the (content_text, analysis) payloads that are logged
LedgerData ==
    {[content_text |-> "text", analysis |-> a] :
        a \in {x \in Analyses : x.priority \in {"LOW", "CRITICAL"}}}

AlteredData(data) == [data EXCEPT !.content_text = "altered"]

AppendsStarted ==
    Len(append_returned) + Cardinality({p \in AppendProcs : append_pc[p] = "loaded"})

\* log_analysis up to and including block creation: _load_chain reads the file
LoadChain(p, cid, data) ==
    /\ ledger_mode = "local"
    /\ append_pc[p] = "idle"
    /\ AppendsStarted < MaxBlocks
    /\ append_pc' = [append_pc EXCEPT ![p] = "loaded"]
    /\ append_local' = [append_local EXCEPT ![p] =
            [chain |-> audit_file, block |-> new_block(audit_file, cid, data)]]
    /\ UNCHANGED <<ledger_mode, audit_file, append_returned, eth_records, ipfs,
                   tampered, last_verify,
                   file_state, last_read>>
    /\ UNCHANGED <<score_vars, escalations, db_vars, review_vars, last_queue_items, exec_vars>>

\* the rest of log_analysis: chain["blocks"].append(block); _save_chain
\* rewrites the file with the loaded chain plus the block; returns block["hash"]
SaveChain(p) ==
    /\ append_pc[p] = "loaded"
    /\ audit_file' = Append(append_local[p].chain, append_local[p].block)
    /\ append_returned' = Append(append_returned, append_local[p].block.hash)
    /\ append_pc' = [append_pc EXCEPT ![p] = "idle"]
    /\ append_local' = [append_local EXCEPT ![p] = None]
    /\ UNCHANGED <<ledger_mode, eth_records, ipfs, tampered, last_verify,
                   file_state, last_read>>
    /\ UNCHANGED <<score_vars, escalations, db_vars, review_vars, last_queue_items, exec_vars>>

\* log_analysis run by a single writer, with no other call in between
LogAnalysis(cid, data) ==
    /\ ledger_mode = "local"
    /\ \A p \in AppendProcs : append_pc[p] = "idle"
    /\ AppendsStarted < MaxBlocks
    /\ audit_file' = Append(audit_file, new_block(audit_file, cid, data))
    /\ append_returned' = Append(append_returned, new_block(audit_file, cid, data).hash)
    /\ UNCHANGED <<ledger_mode, append_pc, append_local, eth_records, ipfs,
                   tampered, last_verify,
                   file_state, last_read>>
    /\ UNCHANGED <<score_vars, escalations, db_vars, review_vars, last_queue_items, exec_vars>>

\* the clock of datetime.utcnow() advances
LedgerTick ==
    /\ now < MaxClock
    /\ now' = now + 1
    /\ UNCHANGED <<content_analysis, moderation_queue, action_log, webhook_log>>
    /\ UNCHANGED <<score_vars, escalations, review_vars, last_queue_items, exec_vars, ledger_vars>>

InitLedger ==
    /\ ScoreIdle
    /\ DbInit
    /\ ledger_mode = "local"
    /\ LedgerInit

\* LocalBlockchainSimulator.get_audit_record: the first block of the file
\* whose content_id matches, or None
get_audit_record(cid) ==
    LET ks == {k \in 1..Len(audit_file) : audit_file[k].content_id = cid}
    IN  IF ks = {} THEN None
        ELSE audit_file[CHOOSE k \in ks : \A j \in ks : k <= j]

NextLedgerSeq ==
    \/ LedgerTick
    \/ \E cid \in ContentIds, d \in LedgerData : LogAnalysis(cid, d)

\* sequential appends
SpecLedgerSeq == InitLedger /\ [][NextLedgerSeq]_vars

NextLedger ==
    \/ LedgerTick
    \/ \E p \in AppendProcs, cid \in ContentIds, d \in LedgerData : LoadChain(p, cid, d)
    \/ \E p \in AppendProcs : SaveChain(p)

\* concurrent appends: log_analysis takes no lock between load and save
SpecLedger == InitLedger /\ [][NextLedger]_vars


(***************************************************************************)
(* Ethereum-backed ledger (BlockchainAuditManager) and verification.  The  *)
(* ModerationAudit contract is reached through its ABI only: logAnalysis   *)
(* stores a record under the content id, getAuditRecord returns the record *)
(* stored last under it.  An IPFS hash is the position of the document in  *)
(* the store.                                                              *)
(***************************************************************************)
\* BlockchainAuditManager.hash_data: same digest model as above
eth_hash_data(data) == <<data>>

\* audit_data built by log_analysis_to_blockchain
audit_data(cid, data) ==
    [content_id |-> cid, content_text |-> data.content_text,
     risk_score |-> data.analysis.risk_score, action |-> data.analysis.action,
     priority |-> data.analysis.priority, timestamp |-> now]

\* BlockchainAuditManager.get_audit_record: contract.functions.getAuditRecord
get_audit_record_eth(cid) ==
    LET ks == {k \in 1..Len(eth_records) : eth_records[k].content_id = cid}
    IN  IF ks = {} THEN None
        ELSE eth_records[CHOOSE k \in ks : \A j \in ks : j <= k]

\* BlockchainAuditManager.retrieve_from_ipfs
retrieve_from_ipfs(ipfs_hash) ==
    IF ipfs_hash \in 1..Len(ipfs) THEN ipfs[ipfs_hash] ELSE None

\* BlockchainAuditManager.verify_audit_integrity: the record and the IPFS
\* document are fetched, computed_hash is printed and compared with nothing
verify_audit_integrity_eth(cid) ==
    LET record == get_audit_record_eth(cid)
    IN  IF record = None THEN FALSE
        ELSE IF retrieve_from_ipfs(record.ipfs_hash) = None THEN FALSE
        ELSE TRUE

\* hasattr(self.blockchain, 'verify_audit_integrity'): BlockchainAuditManager
\* defines the method, LocalBlockchainSimulator does not
HasVerify(mode) == mode = "ethereum"

\* ActionExecutor.verify_audit_integrity
verify_audit_integrity(cid) ==
    IF HasVerify(ledger_mode) THEN verify_audit_integrity_eth(cid) ELSE FALSE

\* log_analysis_to_blockchain: store_to_ipfs, then the logAnalysis transaction;
\* outcome "logged", "ipfs_failed" (nothing stored) or "tx_failed" (document
\* stored, no record)
EthLogAnalysis(cid, data, outcome) ==
    /\ ledger_mode = "ethereum"
    /\ Len(ipfs) < MaxBlocks
    /\ ipfs' = IF outcome = "ipfs_failed" THEN ipfs
               ELSE Append(ipfs, audit_data(cid, data))
    /\ eth_records' =
          IF outcome = "logged"
          THEN Append(eth_records,
                      [content_id |-> cid, ipfs_hash |-> Len(ipfs) + 1,
                       risk_score |-> data.analysis.risk_score,
                       action |-> data.analysis.action,
                       data_hash |-> eth_hash_data(audit_data(cid, data))])
          ELSE eth_records
    /\ ipfs' # ipfs
    /\ UNCHANGED <<ledger_mode, audit_file, append_pc, append_local, append_returned,
                   tampered, last_verify,
                   file_state, last_read>>
    /\ UNCHANGED <<score_vars, escalations, db_vars, review_vars, last_queue_items, exec_vars>>

\* The payload of ledger block k is altered in storage and block k's own hash
\* is recomputed; every other block stays as stored
Tamper(k) ==
    /\ k \notin tampered
    /\ tampered' = tampered \cup {k}
    /\ IF ledger_mode = "local"
       THEN /\ k \in 1..Len(audit_file)
            /\ audit_file[k].data.content_text # "altered"
            /\ audit_file' = [audit_file EXCEPT ![k] =
                  LET b == [@ EXCEPT !.data = AlteredData(@)]
                  IN  [b EXCEPT !.hash = hash_data(b)]]
            /\ UNCHANGED <<eth_records, ipfs>>
       ELSE /\ k \in 1..Len(eth_records)
            /\ ipfs[eth_records[k].ipfs_hash].content_text # "altered"
            /\ ipfs' = [ipfs EXCEPT ![eth_records[k].ipfs_hash] = AlteredData(@)]
            /\ eth_records' = [eth_records EXCEPT ![k].data_hash =
                  eth_hash_data(AlteredData(ipfs[eth_records[k].ipfs_hash]))]
            /\ UNCHANGED audit_file
    /\ UNCHANGED <<ledger_mode, append_pc, append_local, append_returned, last_verify,
                   file_state, last_read>>
    /\ UNCHANGED <<score_vars, escalations, db_vars, review_vars, last_queue_items, exec_vars>>

\* executor.verify_audit_integrity(content_id)
Verify(cid) ==
    /\ last_verify' = [content_id |-> cid, result |-> verify_audit_integrity(cid)]
    /\ last_verify' # last_verify
    /\ UNCHANGED <<ledger_mode, audit_file, append_pc, append_local, append_returned,
                   eth_records, ipfs, tampered, file_state, last_read>>
    /\ UNCHANGED <<score_vars, escalations, db_vars, review_vars, last_queue_items, exec_vars>>

\* ActionExecutor.__init__: BlockchainAuditManager when connected, else the
\* LocalBlockchainSimulator
InitTamper ==
    /\ ScoreIdle
    /\ DbInit
    /\ ledger_mode \in {"local", "ethereum"}
    /\ LedgerInit

NextTamper ==
    \/ \E cid \in ContentIds, d \in LedgerData : LogAnalysis(cid, d)
    \/ \E cid \in ContentIds, d \in LedgerData,
          o \in {"logged", "ipfs_failed", "tx_failed"} : EthLogAnalysis(cid, d, o)
    \/ \E k \in 1..MaxBlocks : Tamper(k)
    \/ \E cid \in ContentIds : Verify(cid)

\* appends by one writer, tampering with stored blocks, verification
SpecTamper == InitTamper /\ [][NextTamper]_vars

(***************************************************************************)
(* ActionExecutor.execute_analysis_actions (core/action_executor.py)       *)
(***************************************************************************)
MaxExec == 1        \* execute_analysis_actions calls

\* What the environment does during one call: sqlite calls raise or not,
\* requests.post answers 200, answers another status, or raises, and the
\* calls to the chain and to IPFS, made by the manager only, succeed or fail
ExecFailures ==
    [save : {"ok", "raises"}, log_action : {"ok", "raises"},
     queue : {"ok", "raises"}, post : {"200", "500", "raises"},
     webhook_log : {"ok", "raises"},
     ledger : IF ledger_mode = "ethereum"
              THEN {"logged", "ipfs_failed", "tx_failed"} ELSE {"not called"},
     ipfs_copy : IF ledger_mode = "ethereum"
                 THEN {"ok", "fails"} ELSE {"not called"}]

\* results dict at the start of the call
NewResults(cid) ==
    [content_id |-> cid, database_saved |-> FALSE, queue_added |-> FALSE,
     webhook_sent |-> FALSE, blockchain_logged |-> FALSE, ipfs_hash |-> NULL,
     errors |-> << >>]

\* _send_webhooks: the hooks to trigger, in order
webhooks_to_send(analysis) ==
    (IF analysis.child_escalation /\ webhooks.child_safety
     THEN <<"child_safety">> ELSE << >>)
    \o (IF analysis.priority \in {"HIGH", "CRITICAL"} /\ webhooks.high_risk
        THEN <<"high_risk">> ELSE << >>)

\* log_webhook_delivery: INSERT INTO webhook_log
log_webhook_delivery_rows(log, cid, hook, status_code) ==
    Append(log, [content_id |-> cid, webhook_url |-> hook, status_code |-> status_code])

\* _send_webhooks, the loop over the hooks still to send.  r is the state of
\* the loop: result["sent"], result["error"], webhook_log, and whether an
\* exception left the function.  A delivery that cannot be logged raises
\* inside the try; the except branch logs again, outside any try.
RECURSIVE SendLoop(_, _, _, _)
SendLoop(hooks, cid, f, r) ==
    IF hooks = << >> \/ r.raised THEN r
    ELSE LET hook == Head(hooks)
             posted == f.post # "raises"
             status == IF f.post = "200" THEN 200 ELSE 500
             logged == f.webhook_log = "ok"
             next ==
                IF posted /\ logged
                THEN [r EXCEPT !.sent = TRUE,
                               !.log = log_webhook_delivery_rows(r.log, cid, hook, status)]
                ELSE IF logged
                THEN [r EXCEPT !.error = "Webhook failed",
                               !.log = log_webhook_delivery_rows(r.log, cid, hook, 0)]
                ELSE [r EXCEPT !.error = "Webhook failed", !.raised = TRUE]
         IN  SendLoop(Tail(hooks), cid, f, next)

\* _send_webhooks(content_id, analysis)
send_webhooks(cid, analysis, f) ==
    SendLoop(webhooks_to_send(analysis), cid, f,
             [sent |-> FALSE, error |-> NULL, log |-> webhook_log, raised |-> FALSE])

\* needs_queue with the priority test lost: every decision is queued
needs_queue_always(analysis) == TRUE

\* if analysis['priority'] in ['HIGH', 'CRITICAL', 'MEDIUM']
needs_queue(analysis) == analysis.priority \in {"HIGH", "CRITICAL", "MEDIUM"}

\* execute_analysis_actions(content_id, analysis, request_data) run to its end
\* under the failures f
execute_analysis_actions(cid, analysis, f) ==
    LET \* 1. save_analysis, then log_action, in one try
        save_raised == f.save = "raises"
        saved == ~save_raised /\ save_analysis_ok(cid)
        err1 == IF save_raised \/ (saved /\ f.log_action = "raises")
                THEN <<"Database save failed">> ELSE << >>
        log1 == IF saved /\ f.log_action = "ok"
                THEN log_action_rows(action_log, cid, "analysis_saved", "success")
                ELSE action_log
        \* 2. add_to_queue, then log_action, in one try
        wanted == needs_queue(analysis)
        queued == wanted /\ f.queue = "ok"
        err2 == IF wanted /\ (f.queue = "raises" \/ f.log_action = "raises")
                THEN <<"Queue add failed">> ELSE << >>
        log2 == IF queued /\ f.log_action = "ok"
                THEN log_action_rows(log1, cid, "added_to_queue", analysis.queue)
                ELSE log1
        \* 3. _send_webhooks, in no try
        wr == send_webhooks(cid, analysis, f)
        err3 == IF wr.error # NULL THEN <<wr.error>> ELSE << >>
        \* 4. the ledger, in one try: the simulator has no
        \*    log_analysis_to_blockchain, the manager returns a tx hash or None
        data == [content_text |-> "text", analysis |-> analysis]
        tx == ledger_mode = "ethereum" /\ f.ledger = "logged"
        stored == ledger_mode = "ethereum" /\ f.ledger # "ipfs_failed"
        ipfs1 == IF stored THEN Append(ipfs, audit_data(cid, data)) ELSE ipfs
        copied == tx /\ f.ipfs_copy = "ok"
        ipfs2 == IF copied
                 THEN Append(ipfs1, [content_id |-> cid, analysis |-> analysis,
                                     timestamp |-> now])
                 ELSE ipfs1
        err4 == IF ledger_mode = "local" \/ (tx /\ f.log_action = "raises")
                THEN <<"Blockchain logging failed">> ELSE << >>
        log4 == IF tx /\ f.log_action = "ok"
                THEN log_action_rows(log2, cid, "blockchain_logged", "tx")
                ELSE log2
        results ==
            [NewResults(cid) EXCEPT
                !.database_saved = saved, !.queue_added = queued,
                !.webhook_sent = wr.sent, !.blockchain_logged = tx,
                !.ipfs_hash = IF copied THEN Len(ipfs2) ELSE NULL,
                !.errors = err1 \o err2 \o err3 \o err4]
    IN  /\ exec_calls' = exec_calls + 1
        /\ content_analysis' =
              IF save_raised THEN content_analysis ELSE save_analysis_rows(cid, analysis)
        /\ moderation_queue' =
              IF queued THEN add_to_queue_rows(cid, analysis.queue, analysis.priority)
              ELSE moderation_queue
        /\ webhook_log' = wr.log
        /\ IF wr.raised
           THEN /\ action_log' = log2
                /\ exec_result' = [analysis |-> analysis, raised |-> TRUE,
                                   results |-> None]
                /\ UNCHANGED <<ipfs, eth_records>>
           ELSE /\ action_log' = log4
                /\ exec_result' = [analysis |-> analysis, raised |-> FALSE,
                                   results |-> results]
                /\ ipfs' = ipfs2
                /\ eth_records' =
                      IF tx
                      THEN Append(eth_records,
                                  [content_id |-> cid, ipfs_hash |-> Len(ipfs) + 1,
                                   risk_score |-> analysis.risk_score,
                                   action |-> analysis.action,
                                   data_hash |-> eth_hash_data(audit_data(cid, data))])
                      ELSE eth_records
        /\ UNCHANGED <<now, webhooks, last_queue_items, exec_inflight>>
        /\ UNCHANGED <<ledger_mode, audit_file, append_pc, append_local, append_returned,
                       tampered, last_verify,
                   file_state, last_read>>
        /\ UNCHANGED <<score_vars, escalations, review_vars>>

\* One submit-for-analysis call, whatever the environment does during it
ExecuteAnalysisActions(cid, analysis) ==
    /\ exec_calls < MaxExec
    /\ \E f \in ExecFailures : execute_analysis_actions(cid, analysis, f)

\* api_server start-up: empty database, webhook URLs from the environment,
\* no ledger, the simulator, or the connected manager
InitExec ==
    /\ ScoreIdle
    /\ content_analysis = {}
    /\ moderation_queue = << >>
    /\ action_log = << >>
    /\ webhook_log = << >>
    /\ escalations = << >>
    /\ now = 1
    /\ review_pc = [p \in ReviewProcs |-> "idle"]
    /\ review_args = [p \in ReviewProcs |-> None]
    /\ review_log = << >>
    /\ last_queue_items = None
    /\ exec_result = None
    /\ webhooks \in [high_risk : BOOLEAN, child_safety : BOOLEAN]
    /\ exec_calls = 0
    /\ exec_inflight = None
    /\ ledger_mode \in {"none", "local", "ethereum"}
    /\ LedgerInit

\* content ids are interchangeable: the first submission is "c1", a later
\* one repeats an id or brings a new one
SubmittedIds == IF exec_calls = 0 THEN {"c1"} ELSE ContentIds

NextExec ==
    \E cid \in SubmittedIds, a \in Analyses : ExecuteAnalysisActions(cid, a)

\* submit-for-analysis calls, one after the other, under any failures
SpecExec == InitExec /\ [][NextExec]_vars

(***************************************************************************)
(* C10.  A submit-for-analysis call always returns the decision: whatever  *)
(* combination of database-save, queue-insert, webhook-delivery,           *)
(* webhook-logging and ledger failures occurs, execute_analysis_actions    *)
(* does not raise, reports the failures through its flags and errors list, *)
(* and the action, priority and queue are the ones decided before.         *)
(* (Checked on SpecExec.)                                                  *)
(***************************************************************************)
C10_NeverRaises ==
    exec_result # None =>
        /\ ~exec_result.raised
        /\ exec_result.results.content_id \in ContentIds

(***************************************************************************)
(* execute_analysis_actions step by step: the database writes, then one    *)
(* blocking requests.post(webhook_url, json=payload, timeout=5) per hook,  *)
(* then the ledger and the return                                          *)
(***************************************************************************)
DbFailures == [save : {"ok", "raises"}, log_action : {"ok", "raises"},
               queue : {"ok", "raises"}]

\* steps 1 and 2, and the list of hooks _send_webhooks will post to
ExecBegin(cid, analysis, f) ==
    LET save_raised == f.save = "raises"
        saved == ~save_raised /\ save_analysis_ok(cid)
        err1 == IF save_raised \/ (saved /\ f.log_action = "raises")
                THEN <<"Database save failed">> ELSE << >>
        log1 == IF saved /\ f.log_action = "ok"
                THEN log_action_rows(action_log, cid, "analysis_saved", "success")
                ELSE action_log
        wanted == needs_queue(analysis)
        queued == wanted /\ f.queue = "ok"
        err2 == IF wanted /\ (f.queue = "raises" \/ f.log_action = "raises")
                THEN <<"Queue add failed">> ELSE << >>
        log2 == IF queued /\ f.log_action = "ok"
                THEN log_action_rows(log1, cid, "added_to_queue", analysis.queue)
                ELSE log1
        hooks == webhooks_to_send(analysis)
    IN  /\ exec_inflight = None
        /\ exec_calls < MaxExec
        /\ content_analysis' =
              IF save_raised THEN content_analysis ELSE save_analysis_rows(cid, analysis)
        /\ moderation_queue' =
              IF queued THEN add_to_queue_rows(cid, analysis.queue, analysis.priority)
              ELSE moderation_queue
        /\ action_log' = log2
        /\ exec_inflight' =
              [content_id |-> cid, analysis |-> analysis, hooks |-> hooks,
               pc |-> IF hooks = << >> THEN "ledger" ELSE "posting",
               webhook_error |-> NULL,
               results |-> [NewResults(cid) EXCEPT !.database_saved = saved,
                                                  !.queue_added = queued,
                                                  !.errors = err1 \o err2]]
        /\ UNCHANGED <<webhook_log, now, exec_result, webhooks, exec_calls, last_queue_items>>
        /\ UNCHANGED <<score_vars, escalations, review_vars, ledger_vars>>

\* the post in flight ends: the endpoint answers 200 or another status, or
\* requests raises (connection error, or Timeout after 5 seconds); the
\* delivery is logged and the loop goes on to the next hook
WebhookResponds(post, webhook_log_outcome) ==
    LET c == exec_inflight
        hook == Head(c.hooks)
        rest == Tail(c.hooks)
        logged == webhook_log_outcome = "ok"
        posted == post # "raises"
        error == IF posted /\ logged THEN c.webhook_error ELSE "Webhook failed"
        done == [c EXCEPT
                    !.hooks = rest,
                    !.webhook_error = error,
                    !.results.webhook_sent = @ \/ (posted /\ logged),
                    !.pc = IF rest = << >> THEN "ledger" ELSE "posting",
                    !.results.errors = IF rest = << >> /\ error # NULL
                                       THEN Append(@, error) ELSE @]
    IN  /\ exec_inflight # None
        /\ exec_inflight.pc = "posting"
        /\ IF logged
           THEN /\ webhook_log' = log_webhook_delivery_rows(webhook_log, c.content_id, hook,
                        IF post = "200" THEN 200 ELSE IF post = "500" THEN 500 ELSE 0)
                /\ exec_inflight' = done
                /\ UNCHANGED <<exec_result, exec_calls>>
           ELSE /\ exec_result' = [analysis |-> c.analysis, raised |-> TRUE,
                                   results |-> None]
                /\ exec_inflight' = None
                /\ exec_calls' = exec_calls + 1
                /\ UNCHANGED webhook_log
        /\ UNCHANGED <<content_analysis, moderation_queue, action_log, now, webhooks,
                       last_queue_items>>
        /\ UNCHANGED <<score_vars, escalations, review_vars, ledger_vars>>

LedgerFailures ==
    [log_action : {"ok", "raises"},
     ledger : IF ledger_mode = "ethereum"
              THEN {"logged", "ipfs_failed", "tx_failed"} ELSE {"not called"},
     ipfs_copy : IF ledger_mode = "ethereum"
                 THEN {"ok", "fails"} ELSE {"not called"}]

\* step 4 and return results, reached once _send_webhooks has returned
ExecFinish(f) ==
    LET c == exec_inflight
        cid == c.content_id
        data == [content_text |-> "text", analysis |-> c.analysis]
        tx == ledger_mode = "ethereum" /\ f.ledger = "logged"
        stored == ledger_mode = "ethereum" /\ f.ledger # "ipfs_failed"
        ipfs1 == IF stored THEN Append(ipfs, audit_data(cid, data)) ELSE ipfs
        copied == tx /\ f.ipfs_copy = "ok"
        ipfs2 == IF copied
                 THEN Append(ipfs1, [content_id |-> cid, analysis |-> c.analysis,
                                     timestamp |-> now])
                 ELSE ipfs1
        err4 == IF ledger_mode = "local" \/ (tx /\ f.log_action = "raises")
                THEN <<"Blockchain logging failed">> ELSE << >>
    IN  /\ exec_inflight # None
        /\ exec_inflight.pc = "ledger"
        /\ action_log' = IF tx /\ f.log_action = "ok"
                         THEN log_action_rows(action_log, cid, "blockchain_logged", "tx")
                         ELSE action_log
        /\ ipfs' = ipfs2
        /\ eth_records' =
              IF tx
              THEN Append(eth_records,
                          [content_id |-> cid, ipfs_hash |-> Len(ipfs) + 1,
                           risk_score |-> c.analysis.risk_score,
                           action |-> c.analysis.action,
                           data_hash |-> eth_hash_data(audit_data(cid, data))])
              ELSE eth_records
        /\ exec_result' =
              [analysis |-> c.analysis, raised |-> FALSE,
               results |-> [c.results EXCEPT
                               !.blockchain_logged = tx,
                               !.ipfs_hash = IF copied THEN Len(ipfs2) ELSE NULL,
                               !.errors = @ \o err4]]
        /\ exec_inflight' = None
        /\ exec_calls' = exec_calls + 1
        /\ UNCHANGED <<content_analysis, moderation_queue, webhook_log, now, webhooks,
                       last_queue_items>>
        /\ UNCHANGED <<ledger_mode, audit_file, append_pc, append_local, append_returned,
                       tampered, last_verify,
                   file_state, last_read>>
        /\ UNCHANGED <<score_vars, escalations, review_vars>>

\* the call returns its results to analyze_content
ExecReturn == \E f \in LedgerFailures : ExecFinish(f)

NextNotify ==
    \/ \E cid \in SubmittedIds, a \in Analyses, f \in DbFailures : ExecBegin(cid, a, f)
    \/ \E post \in {"200", "500", "raises"}, wl \in {"ok", "raises"} :
          WebhookResponds(post, wl)
    \/ ExecReturn

\* one submit-for-analysis call at a time, its webhook posts as separate steps
SpecNotify == InitExec /\ [][NextNotify]_vars

(***************************************************************************)
(* C20.  The decision is returned to the caller without waiting for        *)
(* notification delivery: while a webhook post of the call is still in     *)
(* flight (not answered, failed or timed out), the call can complete.      *)
(* (Checked on SpecNotify.)                                                *)
(***************************************************************************)
C20_ReturnsWithoutWaiting ==
    (exec_inflight # None /\ exec_inflight.pc = "posting") => ENABLED ExecReturn

(***************************************************************************)
(* C17.  execute_analysis_actions creates a moderation-queue entry for a   *)
(* content item if and only if the decision's priority is MEDIUM, HIGH or  *)
(* CRITICAL and the insert succeeds; a LOW-priority decision, such as the  *)
(* all-signals-zero case, never creates one.  In every call the queue      *)
(* either stays as it was or gains one pending row carrying the decision's *)
(* queue and priority; it gains the row exactly when queue_added is        *)
(* reported, and only for the three priorities.  (Checked on SpecExec.)    *)
(***************************************************************************)
C17_QueueOnlyWhenNeeded ==
    [][exec_calls' = exec_calls + 1 =>
        LET a == exec_result'.analysis
            created ==
                /\ Len(moderation_queue') = Len(moderation_queue) + 1
                /\ SubSeq(moderation_queue', 1, Len(moderation_queue)) = moderation_queue
                /\ moderation_queue'[Len(moderation_queue')].priority = a.priority
                /\ moderation_queue'[Len(moderation_queue')].queue_name = a.queue
                /\ moderation_queue'[Len(moderation_queue')].status = "pending"
        IN  /\ created \/ moderation_queue' = moderation_queue
            /\ created => a.priority \in {"MEDIUM", "HIGH", "CRITICAL"}
            /\ a.priority = "LOW" => moderation_queue' = moderation_queue
            /\ ~exec_result'.raised =>
                  (exec_result'.results.queue_added <=> created)
            /\ (~exec_result'.raised /\ ~created
                  /\ a.priority \in {"MEDIUM", "HIGH", "CRITICAL"})
               => \E i \in 1..Len(exec_result'.results.errors) :
                      exec_result'.results.errors[i] = "Queue add failed"
    ]_vars

\* the all-signals-zero decision was executed and stored, and the queue is
\* still empty
C17_Witness ==
    /\ exec_result # None
    /\ ~exec_result.raised
    /\ exec_result.analysis = Pipeline(NoSignals)
    /\ exec_result.analysis.priority = "LOW"
    /\ exec_result.results.database_saved
    /\ ~exec_result.results.queue_added
    /\ moderation_queue = << >>

(***************************************************************************)
(* C2.  Ledger tamper detection: after the payload of block k is altered   *)
(* and only block k's own hash is recomputed, verify_audit_integrity       *)
(* returns false for the content id of block k and of every later block.   *)
(* (Checked on SpecTamper.)                                                *)
(***************************************************************************)
LedgerContentIds ==
    IF ledger_mode = "local"
    THEN [k \in 1..Len(audit_file) |-> audit_file[k].content_id]
    ELSE [k \in 1..Len(eth_records) |-> eth_records[k].content_id]

C2_TamperDetected ==
    \A k \in tampered : \A j \in k..Len(LedgerContentIds) :
        ~verify_audit_integrity(LedgerContentIds[j])

(***************************************************************************)
(* C3.  Queue ordering: whatever the interleaving of add_to_queue calls,   *)
(* get_queue_items(queue_name, status) returns the matching entries sorted *)
(* by priority rank ascending (CRITICAL=1, HIGH=2, MEDIUM=3, LOW=4) and,   *)
(* within one priority, by creation time oldest first; the first item is   *)
(* the highest-priority, oldest one.  (Checked on SpecQueue.)              *)
(***************************************************************************)
ClaimedRank(priority) ==
    CASE priority = "CRITICAL" -> 1
      [] priority = "HIGH"     -> 2
      [] priority = "MEDIUM"   -> 3
      [] priority = "LOW"      -> 4

C6_EnqueueIdempotent ==
    \A i, j \in 1..Len(moderation_queue) :
        (/\ moderation_queue[i].content_id = moderation_queue[j].content_id
         /\ moderation_queue[i].queue_name = moderation_queue[j].queue_name) => i = j

(***************************************************************************)
(* C4.  Two review calls with differing decisions that run concurrently on *)
(* the same pending queue entry: exactly one succeeds, the other returns   *)
(* ConflictError, and the stored reviewer_decision is the one of the call  *)
(* that committed first.  (Checked on SpecReview.)                         *)
(***************************************************************************)
C4_ConcurrentReview ==
    \A i, j \in 1..Len(review_log) :
        (/\ i < j
         /\ review_log[i].queue_id = review_log[j].queue_id
         /\ review_log[i].status_at_call = "pending"
         /\ review_log[j].status_at_call = "pending"
         /\ review_log[i].decision # review_log[j].decision)
        => /\ review_log[i].outcome = "success"
           /\ review_log[j].outcome = "ConflictError"
           /\ review_log[j].after.reviewer_decision = review_log[i].decision

(***************************************************************************)
(* C8.  Once a queue entry has been reviewed, a later review call on it    *)
(* whose reviewer or decision differs from the recorded ones fails with    *)
(* ConflictError and leaves status, assigned reviewer, reviewer_decision,  *)
(* notes and reviewed_at unchanged.  (Checked on SpecReview.)              *)
(***************************************************************************)
C8_ReviewedIsFinal ==
    \A k \in 1..Len(review_log) :
        (/\ review_log[k].status_at_call = "reviewed"
         /\ review_log[k].before.status = "reviewed"
         /\ \/ review_log[k].reviewer # review_log[k].before.assigned_to
            \/ review_log[k].decision # review_log[k].before.reviewer_decision)
        => /\ review_log[k].outcome = "ConflictError"
           /\ review_log[k].after = review_log[k].before

(***************************************************************************)
(* C16.  A queue entry's status changes only by the transitions pending to *)
(* reviewed or pending to escalated; once an entry is reviewed or          *)
(* escalated no operation changes its status again.  review_log holds the  *)
(* row before and after every committed update.  (Checked on SpecReview.)  *)
(***************************************************************************)
C16_StatusTerminal ==
    \A k \in 1..Len(review_log) :
        LET before == review_log[k].before.status
            after  == review_log[k].after.status
        IN  \/ after = before
            \/ before = "pending" /\ after \in {"reviewed", "escalated"}

(***************************************************************************)
(* C9.  After any sequence of sequential log_analysis calls the stored     *)
(* chain is well linked: the block at position i (from 0) has block_number *)
(* i, block 0 has previous_hash "0" * 64, and every later block has        *)
(* previous_hash equal to the stored hash of the block before it.          *)
(* (Checked on SpecLedgerSeq.)                                             *)
(***************************************************************************)
C9_WellLinked ==
    \A i \in 1..Len(audit_file) :
        /\ audit_file[i].block_number = i - 1
        /\ i = 1 => audit_file[i].previous_hash = ZeroHash
        /\ i > 1 => audit_file[i].previous_hash = audit_file[i - 1].hash

C9_Witness ==
    /\ Len(audit_file) >= 3
    /\ Len(append_returned) = Len(audit_file)
    /\ audit_file[3].previous_hash # audit_file[2].previous_hash

(***************************************************************************)
(* C18.  Ledger append/get round trip: after log_analysis(content_id,      *)
(* analysis, text) has returned hash h, get_audit_record(content_id)       *)
(* returns the block whose hash is h, with the appended data, whatever was *)
(* appended before and after; for a content_id never appended it returns   *)
(* None.  With one writer at a time the i-th returned hash belongs to the  *)
(* i-th block of the file.  (Checked on SpecLedgerSeq.)                    *)
(***************************************************************************)
C18_RoundTrip ==
    /\ \A i \in 1..Len(append_returned) :
          i <= Len(audit_file) =>
              LET record == get_audit_record(audit_file[i].content_id)
              IN  /\ record # None
                  /\ record.hash = append_returned[i]
                  /\ record.data = audit_file[i].data
    /\ \A cid \in ContentIds :
          (\A k \in 1..Len(audit_file) : audit_file[k].content_id # cid)
              => get_audit_record(cid) = None

(***************************************************************************)
(* C5.  Concurrent log_analysis calls: every append that returns has its   *)
(* own block in the stored chain (none lost or overwritten), no two blocks *)
(* share a block_number, and each block's previous_hash is the hash of the *)
(* block with the preceding number.  (Checked on SpecLedger.)              *)
(***************************************************************************)
C5_NoLostAppend ==
    /\ Len(audit_file) = Len(append_returned)
    /\ \A i \in 1..Len(append_returned) :
          \E k \in 1..Len(audit_file) : audit_file[k].hash = append_returned[i]
    /\ \A i, j \in 1..Len(audit_file) :
          audit_file[i].block_number = audit_file[j].block_number => i = j
    /\ \A i \in 2..Len(audit_file) :
          audit_file[i].previous_hash = audit_file[i - 1].hash

(***************************************************************************)
(* C21.  With the audit ledger enabled and running on the local ledger     *)
(* (LocalBlockchainSimulator), every decision processed by                 *)
(* execute_analysis_actions results in a ledger block for that content_id, *)
(* and the returned blockchain_logged flag is true exactly when that block *)
(* was appended.  (Checked on SpecExec.)                                   *)
(***************************************************************************)
C21_LocalLedgerLogged ==
    (exec_result # None /\ ~exec_result.raised /\ ledger_mode = "local") =>
        /\ \E k \in 1..Len(audit_file) :
              audit_file[k].content_id = exec_result.results.content_id
        /\ exec_result.results.blockchain_logged

(***************************************************************************)
(* C22.  Whenever the generic immediate-action input flag                  *)
(* (requires_immediate_action) is set, calculate_improved_harm_score       *)
(* returns risk_score >= 85, whatever the values of child_flag,            *)
(* child_score and the other signals.  (Checked on SpecScore.)             *)
(***************************************************************************)
C22_ImmediateFloor ==
    (scoring # None /\ signals.requires_immediate_action)
        => scoring.risk_score >= 85

(***************************************************************************)
(* C23.  Whenever the analysis pipeline produces a decision with priority  *)
(* CRITICAL, an Escalation record for that content_id is created in the    *)
(* escalation tracker (status pending) without any human action: once      *)
(* execute_analysis_actions has returned for a CRITICAL decision, table    *)
(* escalations holds a pending row for the content_id.                     *)
(* (Checked on SpecExec.)                                                  *)
(***************************************************************************)
C23_CriticalEscalated ==
    (exec_result # None /\ ~exec_result.raised
     /\ exec_result.analysis.priority = "CRITICAL")
        => \E k \in 1..Len(escalations) :
              /\ escalations[k].content_id = exec_result.results.content_id
              /\ escalations[k].status = "pending"

(***************************************************************************)
(* ModerationDatabase.get_escalations                                      *)
(***************************************************************************)
\* CASE e.priority WHEN 'CRITICAL' THEN 1 WHEN 'HIGH' THEN 2 WHEN 'MEDIUM'
\* THEN 3 ELSE 4 END
EscalationRank(priority) ==
    CASE priority = "CRITICAL" -> 1
      [] priority = "HIGH"     -> 2
      [] priority = "MEDIUM"   -> 3
      [] OTHER                 -> 4

\* the ORDER BY clause of get_escalations: rank, then e.created_at DESC
EscalationBefore(a, b) ==
    \/ EscalationRank(a.priority) < EscalationRank(b.priority)
    \/ /\ EscalationRank(a.priority) = EscalationRank(b.priority)
       /\ a.created_at >= b.created_at

\* WHERE 1=1 [AND e.status = ?] [AND e.escalated_by = ?]
EscalationIds(status, escalated_by) ==
    {i \in 1..Len(escalations) :
        /\ status # NULL => escalations[i].status = status
        /\ escalated_by # NULL => escalations[i].escalated_by = escalated_by}

\* SELECT e.*: the escalation row with its id
EscalationRow(i) == [id |-> i] @@ escalations[i]

\* get_escalations with the status filter lost
get_escalations_unfiltered(status, escalated_by) ==
    LET ids == EscalationIds(NULL, escalated_by)
        n   == Cardinality(ids)
    IN  {[k \in 1..n |-> EscalationRow(f[k])] :
            f \in {g \in [1..n -> ids] :
                     /\ \A i, j \in 1..n : i # j => g[i] # g[j]
                     /\ \A i, j \in 1..n : i < j =>
                            EscalationBefore(escalations[g[i]], escalations[g[j]])}}

\* The result lists get_escalations(status, escalated_by) may return: every
\* arrangement of the matching rows that respects ORDER BY
get_escalations(status, escalated_by) ==
    LET ids == EscalationIds(status, escalated_by)
        n   == Cardinality(ids)
    IN  {[k \in 1..n |-> EscalationRow(f[k])] :
            f \in {g \in [1..n -> ids] :
                     /\ \A i, j \in 1..n : i # j => g[i] # g[j]
                     /\ \A i, j \in 1..n : i < j =>
                            EscalationBefore(escalations[g[i]], escalations[g[j]])}}

\* position of a status in the lifecycle pending, in-progress, responded, resolved
StatusRank(status) ==
    CASE status = "pending"     -> 1
      [] status = "in-progress" -> 2
      [] status = "responded"   -> 3
      [] status = "resolved"    -> 4
      [] OTHER                  -> 0

\* the escalations of one content item: created by moderators, moved through
\* the lifecycle, listed
NextEscalationList ==
    \/ \E pr \in Priorities : CreateEscalation("c1", pr)
    \/ \E id \in 1..MaxEscalations, st \in EscalationStatuses,
          who \in {NULL, "senior"}, notes \in {NULL, "Resolved by moderator"} :
          UpdateEscalationStatus(id, st, who, notes)

SpecEscalationList == InitEscalation /\ [][NextEscalationList]_vars

(***************************************************************************)
(* C24.  update_escalation_status performs any requested forward           *)
(* transition in the lifecycle pending, in-progress, responded, resolved,  *)
(* including jumps that skip intermediate states such as pending to        *)
(* resolved, and afterwards the escalation is listed by get_escalations    *)
(* under the requested status and under no other status.                   *)
(* (Checked on SpecEscalationList.)                                        *)
(***************************************************************************)
C24_ForwardTransition ==
    [][\A id \in 1..Len(escalations) :
          escalations'[id] # escalations[id] =>
            \A st \in EscalationStatuses :
               \* the step is update_escalation_status(id, st, who, notes),
               \* a forward transition
               (/\ StatusRank(escalations[id].status) < StatusRank(st)
                /\ \E who \in {NULL, "senior"}, notes \in {NULL, "Resolved by moderator"} :
                      escalations'[id] =
                         update_escalation_status_row(escalations[id], st, who, notes))
               => /\ escalations'[id].status = st
                  /\ \A o \in EscalationStatuses :
                        LET lists == get_escalations(o, NULL)'
                        IN  /\ lists # {}
                            /\ \A l \in lists :
                                  (\E k \in 1..Len(l) : l[k].id = id) <=> (o = st)
    ]_vars

\* an escalation resolved with no assignee and no responded_at: it was not
\* taken through 'responded' by a plain status update
C24_Witness ==
    /\ Len(escalations) >= 1
    /\ escalations[1].status = "resolved"
    /\ escalations[1].assigned_to = NULL
    /\ escalations[1].responded_at = 0
    /\ \A l \in get_escalations("resolved", NULL) : \E k \in 1..Len(l) : l[k].id = 1
    /\ \A l \in get_escalations("pending", NULL) : \A k \in 1..Len(l) : l[k].id # 1

(***************************************************************************)
(* POST /api/v1/queue/{queue_id}/review for any queue_id, known or not     *)
(***************************************************************************)
\* review_queue_item(queue_id, decision, reviewer, notes) from the request to
\* the response: update_queue_status runs its UPDATE ... WHERE id = ?, which
\* matches one row or none, and the handler returns {"status": "success"}
ReviewQueueItem(queue_id, reviewer, decision, notes) ==
    LET known == queue_id \in 1..Len(moderation_queue)
    IN  /\ Len(review_log) < MaxReviews
        /\ moderation_queue' =
              update_queue_status_rows(queue_id, "reviewed", reviewer, decision, notes)
        /\ review_log' = Append(review_log,
              [queue_id |-> queue_id, reviewer |-> reviewer, decision |-> decision,
               status_at_call |-> IF known THEN moderation_queue[queue_id].status ELSE NULL,
               outcome |-> "success",
               before |-> moderation_queue, after |-> moderation_queue'])
        /\ last_queue_items' = None
        /\ UNCHANGED <<review_pc, review_args>>
        /\ UNCHANGED <<content_analysis, action_log, webhook_log, now>>
        /\ UNCHANGED <<score_vars, escalations, exec_vars, ledger_vars>>

\* the ids of the table and the next id, which no row has
NextReviewApi ==
    \/ Tick
    \/ \E id \in 1..(Len(moderation_queue) + 1), i \in ReviewInputs :
          ReviewQueueItem(id, i.reviewer, i.decision, i.notes)

\* review requests served one after the other
SpecReviewApi == InitReview /\ [][NextReviewApi]_vars

(***************************************************************************)
(* C25.  A review call (update_queue_status / POST /queue/{queue_id}/      *)
(* review) for a queue_id that does not exist fails with NotFound, reports *)
(* no success to the caller and changes no queue entry.                    *)
(* (Checked on SpecReviewApi.)                                             *)
(***************************************************************************)
C25_UnknownIdNotFound ==
    \A k \in 1..Len(review_log) :
        review_log[k].queue_id \notin 1..Len(review_log[k].before) =>
            /\ review_log[k].outcome = "NotFound"
            /\ review_log[k].after = review_log[k].before

(***************************************************************************)
(* LocalBlockchainSimulator: reads next to an append.  _save_chain is      *)
(* Path.write_text, i.e. open(file, 'w') followed by write and close, with *)
(* no temporary file, rename or lock.  audit_file is the chain of the last *)
(* text written in full; file_state tells whether the file on disk holds   *)
(* that text, nothing, or the beginning of the next text.                  *)
(***************************************************************************)
\* the log_analysis call running next to the readers
Writer == CHOOSE p \in AppendProcs : \A q \in AppendProcs : p <= q

\* the chain the append in flight is writing, or the chain on disk
ChainAfter ==
    IF append_pc[Writer] \in {"loaded", "writing"}
    THEN Append(append_local[Writer].chain, append_local[Writer].block)
    ELSE audit_file

\* _save_chain, open(audit_file, 'w'): the file is truncated to zero length
OpenChainFile(p) ==
    /\ append_pc[p] = "loaded"
    /\ append_pc' = [append_pc EXCEPT ![p] = "writing"]
    /\ file_state' = "truncated"
    /\ UNCHANGED <<ledger_mode, audit_file, append_local, append_returned, eth_records,
                   ipfs, tampered, last_verify, last_read>>
    /\ UNCHANGED <<score_vars, escalations, db_vars, review_vars, last_queue_items, exec_vars>>

\* _save_chain, write: a text longer than the buffer reaches the file in parts
FlushChainFile(p) ==
    /\ append_pc[p] = "writing"
    /\ file_state = "truncated"
    /\ file_state' = "partial"
    /\ UNCHANGED <<ledger_mode, audit_file, append_pc, append_local, append_returned,
                   eth_records, ipfs, tampered, last_verify, last_read>>
    /\ UNCHANGED <<score_vars, escalations, db_vars, review_vars, last_queue_items, exec_vars>>

\* _save_chain, close: the whole text is in the file; log_analysis returns
\* block["hash"]
CloseChainFile(p) ==
    /\ append_pc[p] = "writing"
    /\ audit_file' = Append(append_local[p].chain, append_local[p].block)
    /\ file_state' = "whole"
    /\ append_returned' = Append(append_returned, append_local[p].block.hash)
    /\ append_pc' = [append_pc EXCEPT ![p] = "idle"]
    /\ append_local' = [append_local EXCEPT ![p] = None]
    /\ UNCHANGED <<ledger_mode, eth_records, ipfs, tampered, last_verify, last_read>>
    /\ UNCHANGED <<score_vars, escalations, db_vars, review_vars, last_queue_items, exec_vars>>

\* _load_chain: json.loads(self.audit_file.read_text()); an empty text or the
\* beginning of a text raises json.JSONDecodeError
load_chain ==
    IF file_state = "whole"
    THEN [raised |-> NULL, blocks |-> audit_file]
    ELSE [raised |-> "JSONDecodeError", blocks |-> None]

\* for block in chain["blocks"]: if block.get("content_id") == content_id:
\* return block; return None
record_in(blocks, cid) ==
    LET ks == {k \in 1..Len(blocks) : blocks[k].content_id = cid}
    IN  IF ks = {} THEN None
        ELSE blocks[CHOOSE k \in ks : \A j \in ks : k <= j]

\* the dict get_blockchain_stats builds
blockchain_stats(blocks) ==
    [connected |-> TRUE, network |-> "Local Simulation",
     total_blocks |-> Len(blocks), mode |-> "development"]

\* LocalBlockchainSimulator.get_audit_record(content_id), called at any moment
GetAuditRecord(cid) ==
    LET c == load_chain
    IN  /\ ledger_mode = "local"
        /\ last_read' =
              [op |-> "get_audit_record", raised |-> c.raised,
               result |-> IF c.raised = NULL THEN record_in(c.blocks, cid) ELSE None,
               before |-> record_in(audit_file, cid),
               after |-> record_in(ChainAfter, cid),
               during |-> append_pc[Writer]]
        /\ last_read' # last_read
        /\ UNCHANGED <<ledger_mode, audit_file, append_pc, append_local, append_returned,
                       eth_records, ipfs, tampered, last_verify, file_state>>
        /\ UNCHANGED <<score_vars, escalations, db_vars, review_vars, last_queue_items,
                       exec_vars>>

\* LocalBlockchainSimulator.get_blockchain_stats(), called at any moment
GetBlockchainStats ==
    LET c == load_chain
    IN  /\ ledger_mode = "local"
        /\ last_read' =
              [op |-> "get_blockchain_stats", raised |-> c.raised,
               result |-> IF c.raised = NULL THEN blockchain_stats(c.blocks) ELSE None,
               before |-> blockchain_stats(audit_file),
               after |-> blockchain_stats(ChainAfter),
               during |-> append_pc[Writer]]
        /\ last_read' # last_read
        /\ UNCHANGED <<ledger_mode, audit_file, append_pc, append_local, append_returned,
                       eth_records, ipfs, tampered, last_verify, file_state>>
        /\ UNCHANGED <<score_vars, escalations, db_vars, review_vars, last_queue_items,
                       exec_vars>>

NextLedgerRead ==
    \/ \E cid \in ContentIds, d \in LedgerData : LoadChain(Writer, cid, d)
    \/ OpenChainFile(Writer)
    \/ FlushChainFile(Writer)
    \/ CloseChainFile(Writer)
    \/ \E cid \in ContentIds : GetAuditRecord(cid)
    \/ GetBlockchainStats

\* one writer appending, readers calling at any moment
SpecLedgerRead == InitLedger /\ [][NextLedgerRead]_vars

(***************************************************************************)
(* C26.  A ledger read (get_audit_record or get_blockchain_stats) that     *)
(* runs concurrently with an append (log_analysis rewriting the chain      *)
(* file) always observes either the chain before the append or the chain   *)
(* after it, never a truncated, partially written or unparsable chain.     *)
(* (Checked on SpecLedgerRead.)                                            *)
(***************************************************************************)
C26_ReadsSeeWholeChain ==
    last_read # None =>
        /\ last_read.raised = NULL
        /\ last_read.result \in {last_read.before, last_read.after}

(***************************************************************************)
(* ActionExecutor.process_queue_item (human review through the executor)   *)
(***************************************************************************)
\* process_queue_item(queue_id, reviewer, decision, notes): update_queue_status
\* to 'reviewed', then the content_id is looked up in db.get_queue_items(),
\* i.e. among the rows whose status is 'pending' after the update, and
\* 'human_review' is logged if it was found
ProcessQueueItem(queue_id, reviewer, decision, notes) ==
    /\ queue_id \in 1..Len(moderation_queue)
    /\ Len(review_log) < MaxReviews
    /\ moderation_queue' =
          update_queue_status_rows(queue_id, "reviewed", reviewer, decision, notes)
    /\ UNCHANGED <<content_analysis, webhook_log, now>>
    /\ \E queue_items \in get_queue_items(NULL, "pending")' :
          LET found == {k \in 1..Len(queue_items) : queue_items[k].id = queue_id}
          IN  action_log' =
                 IF found # {}
                 THEN log_action_rows(action_log,
                                      queue_items[CHOOSE k \in found : TRUE].content_id,
                                      "human_review", decision)
                 ELSE action_log
    /\ review_log' = Append(review_log,
          [queue_id |-> queue_id, reviewer |-> reviewer, decision |-> decision,
           status_at_call |-> moderation_queue[queue_id].status, outcome |-> "reviewed",
           analysed |-> HasAnalysis(moderation_queue[queue_id].content_id),
           before |-> moderation_queue[queue_id], after |-> moderation_queue'[queue_id]])
    /\ last_queue_items' = None
    /\ UNCHANGED <<review_pc, review_args>>
    /\ UNCHANGED <<score_vars, escalations, exec_vars, ledger_vars>>

NextProcess ==
    \/ \E cid \in ContentIds, a \in {x \in Analyses : x.priority \in {"MEDIUM", "CRITICAL"}} :
          SaveAnalysis(cid, a)
    \/ \E cid \in ContentIds, a \in EnqueueArgs : AddToQueue(cid, a.queue, a.priority)
    \/ \E id \in 1..MaxQueue, i \in ReviewInputs :
          ProcessQueueItem(id, i.reviewer, i.decision, i.notes)

\* analyses stored and queued, queue entries processed by reviewers
SpecProcess == InitQueue /\ [][NextProcess]_vars

(***************************************************************************)
(* C27.  process_queue_item on an existing pending queue entry marks it    *)
(* reviewed and appends a 'human_review' record with the decision to the   *)
(* action log for that entry's content_id.  (Checked on SpecProcess.)      *)
(***************************************************************************)
C27_HumanReviewLogged ==
    \A k \in 1..Len(review_log) :
        (review_log[k].before.status = "pending" /\ review_log[k].analysed)
        => /\ review_log[k].after.status = "reviewed"
           /\ \E j \in 1..Len(action_log) :
                 /\ action_log[j].content_id = review_log[k].before.content_id
                 /\ action_log[j].action_type = "human_review"
                 /\ action_log[j].action_result = review_log[k].decision

(***************************************************************************)
(* C28.  On a ledger that has not been tampered with, verifying through    *)
(* ActionExecutor.verify_audit_integrity returns true for every content_id *)
(* that has been appended, in both ledger configurations (Ethereum-backed  *)
(* manager and local simulator), and returns false for a content_id that   *)
(* was never appended.  (Checked on SpecTamper.)                           *)
(***************************************************************************)
C28_VerifyUntampered ==
    tampered = {} =>
        \A cid \in ContentIds :
            verify_audit_integrity(cid) <=>
                \E k \in 1..Len(LedgerContentIds) : LedgerContentIds[k] = cid

(***************************************************************************)
(* C29.  In every reachable state an escalation's status is one of         *)
(* pending, in-progress, responded, resolved, and no sequence of           *)
(* update_escalation_status calls ever moves it backward in that order     *)
(* (for example from resolved back to pending).                            *)
(* (Checked on SpecEscalation.)                                            *)
(***************************************************************************)
C29_NeverBackward ==
    [][\A i \in 1..Len(escalations) :
          /\ escalations[i].status \in EscalationStatuses
          /\ escalations'[i].status \in EscalationStatuses
          /\ StatusRank(escalations'[i].status) >= StatusRank(escalations[i].status)
    ]_vars

(***************************************************************************)
(* Resubmission: analyses already stored by earlier save_analysis calls,   *)
(* then submit-for-analysis calls for the same or another content_id       *)
(***************************************************************************)
\* the environment of a call in which only step 1 can fail: save_analysis or
\* the log_action after it raises, every other call succeeds
SaveFailures ==
    [save : {"ok", "raises"}, log_action : {"ok", "raises"},
     queue : {"ok"}, post : {"200"}, webhook_log : {"ok"},
     ledger : IF ledger_mode = "ethereum" THEN {"logged"} ELSE {"not called"},
     ipfs_copy : IF ledger_mode = "ethereum" THEN {"ok"} ELSE {"not called"}]

\* one submit-for-analysis call under these failures
Resubmit(cid, analysis) ==
    /\ exec_calls < MaxExec
    /\ \E f \in SaveFailures : execute_analysis_actions(cid, analysis, f)

NextResubmit ==
    \/ \E cid \in ContentIds, a \in {x \in Analyses : x.priority \in {"MEDIUM", "CRITICAL"}} :
          exec_calls = 0 /\ SaveAnalysis(cid, a)
    \/ \E cid \in SubmittedIds, a \in Analyses : Resubmit(cid, a)

SpecResubmit == InitExec /\ [][NextResubmit]_vars

(***************************************************************************)
(* C30.  Resubmitting a content_id that already has a stored analysis      *)
(* leaves the stored content_analysis row (risk_score, label, action,      *)
(* priority, queue) unchanged: save_analysis returns False,                *)
(* execute_analysis_actions reports database_saved false, and no           *)
(* 'analysis_saved' action is logged for the resubmission.                 *)
(* (Checked on SpecResubmit.)                                              *)
(***************************************************************************)
C30_ResubmitKeepsRow ==
    [][/\ \A c \in content_analysis :
             /\ c \in content_analysis'
             /\ \A x \in content_analysis' : x.content_id = c.content_id => x = c
       /\ (exec_calls' = exec_calls + 1 /\ ~exec_result'.raised
           /\ HasAnalysis(exec_result'.results.content_id))
          => /\ content_analysis' = content_analysis
             /\ ~exec_result'.results.database_saved
             /\ \A j \in (Len(action_log) + 1)..Len(action_log') :
                   action_log'[j].action_type # "analysis_saved"
    ]_vars

\* a resubmission has returned with no error: the save was refused, and the
\* stored row still carries the earlier decision, not the resubmitted one
C30_Witness ==
    /\ exec_result # None
    /\ ~exec_result.raised
    /\ exec_result.results.errors = << >>
    /\ ~exec_result.results.database_saved
    /\ \E c \in content_analysis :
          /\ c.content_id = exec_result.results.content_id
          /\ c.priority = "CRITICAL"
          /\ exec_result.analysis.priority = "LOW"
    /\ \A j \in 1..Len(action_log) : action_log[j].action_type # "analysis_saved"

====
